---- MODULE Spec2Model ----
(***************************************************************************)
(* Model of flopy/modflow/mfpks.py: the ModflowPks package class.          *)
(*                                                                         *)
(* State: one host model (its version and its package list), the last      *)
(* write_file call (the lines handed to f.write, how the call ended), the  *)
(* file handles that were opened and not closed, a handle owned by the     *)
(* caller, and a record of the last operation with the I/O it performed.   *)
(*                                                                         *)
(* Python values:                                                          *)
(*   None for an optional              <<>>, a value v as <<v>>            *)
(*   a str that the code inspects      a sequence of one-character strings *)
(*   a float                           the text of its repr ("0.97")       *)
(*   l2norm (None / str / int)         a record tagged by its type         *)
(***************************************************************************)
EXTENDS Integers, Sequences, FiniteSets, TLC

VARIABLES version, packagelist, out, openFiles, callerHandle, lastOp, nOk, nFail

vars == <<version, packagelist, out, openFiles, callerHandle, lastOp, nOk, nFail>>

-----------------------------------------------------------------------------
(* Bounds of the model *)

\* successful constructions in one behaviour
MaxPkgs == 2
\* failed constructions in one behaviour
MaxFail == 2

-----------------------------------------------------------------------------
(* Python values *)

None == <<>>
Some(v) == <<v>>

\* str values as character sequences
S_l2norm == <<"l", "2", "n", "o", "r", "m">>
S_rl2norm == <<"r", "l", "2", "n", "o", "r", "m">>
S_1 == <<"1">>
S_2 == <<"2">>

UpperAlpha == <<"A","B","C","D","E","F","G","H","I","J","K","L","M",
                "N","O","P","Q","R","S","T","U","V","W","X","Y","Z">>
LowerAlpha == <<"a","b","c","d","e","f","g","h","i","j","k","l","m",
                "n","o","p","q","r","s","t","u","v","w","x","y","z">>

\* str.lower() on one character
LowerChar(c) ==
  IF \E i \in DOMAIN UpperAlpha : UpperAlpha[i] = c
  THEN LowerAlpha[CHOOSE i \in DOMAIN UpperAlpha : UpperAlpha[i] = c]
  ELSE c

\* str.lower()
lower(s) == [i \in DOMAIN s |-> LowerChar(s[i])]

\* the l2norm attribute by Python type
NormNone == [t |-> "NoneType", s |-> <<>>, n |-> 0]
NormStr(s) == [t |-> "str", s |-> s, n |-> 0]
NormInt(n) == [t |-> "int", s |-> <<>>, n |-> n]

RECURSIVE BitOr(_, _)
\* Python's a | b on non-negative ints
BitOr(a, b) ==
  IF a = 0 THEN b
  ELSE IF b = 0 THEN a
  ELSE (IF (a % 2 = 1) \/ (b % 2 = 1) THEN 1 ELSE 0) + 2 * BitOr(a \div 2, b \div 2)

\* "{0}".format(v) for an int
FmtInt(v) == ToString(v)
\* "{0}".format(v) for a float, held as the text of its repr
FmtFloat(v) == v

-----------------------------------------------------------------------------
(* ModflowPks statics and the constructor's defaults *)

ftype == "PKS"
defaultunit == 27

\* the keyword defaults of __init__
Defaults ==
  [mxiter |-> 100, innerit |-> 50, isolver |-> 1, npc |-> 2, iscl |-> 0,
   iord |-> 0, ncoresm |-> 1, ncoresv |-> 1, damp |-> "1.0", dampt |-> "1.0",
   relax |-> "0.97", ifill |-> 0, droptol |-> "0.0", hclose |-> "0.001",
   rclose |-> "0.1", l2norm |-> NormNone, iprpks |-> 0, mutpks |-> 3,
   mpi |-> FALSE, partopt |-> 0, novlapimpsol |-> 1, stenimpsol |-> 2,
   verbose |-> 0, partdata |-> None, extension |-> "pks",
   unitnumber |-> None, filenames |-> [t |-> "NoneType", v |-> <<>>]]

\* the fields the constructor copies from its arguments onto the instance
TuningFields ==
  {"mxiter", "innerit", "isolver", "npc", "iscl", "iord", "ncoresm", "ncoresv",
   "damp", "dampt", "relax", "ifill", "droptol", "hclose", "rclose", "l2norm",
   "iprpks", "mutpks", "mpi", "partopt", "novlapimpsol", "stenimpsol",
   "verbose", "partdata"}

\* host model versions
Versions == {"mf2005", "mf2k", "mfnwt", "mfusg"}

\* the heading _generate_heading builds for the package
Heading == "# PKS package for MODFLOW, generated by Flopy."

\* the name the host gives a package file when filenames[0] is None
DefaultFileName == "modflowtest.pks"

-----------------------------------------------------------------------------
(* Host framework: Package.__init__ and the model's add_package *)

\* Package.__init__: name, unit number, extension and file name of the package
Package_init(extension, name, units, fname) ==
  [name |-> name[1], unit_number |-> units, extension |-> extension,
   file_name |-> <<IF fname[1] = None THEN DefaultFileName ELSE fname[1][1]>>]

\* model.add_package(p): one append to the model's package list
add_package(pl, p) == Append(pl, p)

\* model.get_ext_dict_attr(ext_unit_dict, filetype): the (unit, filename) the
\* table holds under the file type
get_ext_dict_attr(ext_unit_dict, filetype) ==
  <<Some(ext_unit_dict[filetype].unit), Some(ext_unit_dict[filetype].filename)>>

-----------------------------------------------------------------------------
(* ModflowPks.__init__ *)

\* mutant: the check for "mfnwt" dropped
BadVersion_OnlyMf2k(v) == v = "mf2k"

\* the model versions the package refuses
BadVersion(v) == v = "mf2k" \/ v = "mfnwt"

\* filenames as the constructor normalises it: None -> [None], str -> [str]
NormFilenames(filenames) ==
  IF filenames.t = "NoneType" THEN <<None>>
  ELSE IF filenames.t = "str" THEN <<Some(filenames.v[1])>>
  ELSE filenames.v

\* the instance after the attribute assignments of the constructor
Instance(a) ==
  LET unitnumber == IF a.unitnumber = None THEN defaultunit ELSE a.unitnumber[1]
      filenames == NormFilenames(a.filenames)
      name == <<ftype>>
      units == <<unitnumber>>
      fname == <<filenames[1]>>
      base == Package_init(a.extension, name, units, fname)
  IN [f \in TuningFields \cup {"name", "unit_number", "extension", "file_name",
                               "heading", "url"} |->
        IF f \in TuningFields THEN a[f]
        ELSE IF f = "heading" THEN Heading
        ELSE IF f = "url" THEN "pks.htm"
        ELSE base[f]]

\* mutant: the package registered before the version check
ModflowPks_RegisterFirst(pl, v, a) ==
  [raised |-> BadVersion(v), packagelist |-> add_package(pl, Instance(a))]

\* ModflowPks(model, **a) on a model of version v whose package list is pl:
\* whether it raised, and the package list afterwards
ModflowPks(pl, v, a) ==
  IF BadVersion(v)
  THEN [raised |-> TRUE, packagelist |-> pl]
  ELSE [raised |-> FALSE, packagelist |-> add_package(pl, Instance(a))]

-----------------------------------------------------------------------------
(* ModflowPks.write_file *)

\* "NAME value\n"
Line(k, v) == <<k, v>>
\* a line that is a bare keyword
Keyword(k) == <<k>>

\* heading and MXITER .. IORD
HeadLines(p) ==
  << <<p.heading>>,
     Line("MXITER", FmtInt(p.mxiter)), Line("INNERIT", FmtInt(p.innerit)),
     Line("ISOLVER", FmtInt(p.isolver)), Line("NPC", FmtInt(p.npc)),
     Line("ISCL", FmtInt(p.iscl)), Line("IORD", FmtInt(p.iord)) >>

\* mutant: NCORESV gated on ncoresm
CoreLines_SharedGate(p) ==
  (IF p.ncoresm > 1 THEN <<Line("NCORESM", FmtInt(p.ncoresm))>> ELSE <<>>)
  \o (IF p.ncoresm > 1 THEN <<Line("NCORESV", FmtInt(p.ncoresv))>> ELSE <<>>)

\* NCORESM, NCORESV
CoreLines(p) ==
  (IF p.ncoresm > 1 THEN <<Line("NCORESM", FmtInt(p.ncoresm))>> ELSE <<>>)
  \o (IF p.ncoresv > 1 THEN <<Line("NCORESV", FmtInt(p.ncoresv))>> ELSE <<>>)

\* DAMP, DAMPT
DampLines(p) ==
  <<Line("DAMP", FmtFloat(p.damp)), Line("DAMPT", FmtFloat(p.dampt))>>

\* mutant: RELAX also written for npc == 0
RelaxLines_NonNegative(p) ==
  IF p.npc >= 0 THEN <<Line("RELAX", FmtFloat(p.relax))>> ELSE <<>>

\* RELAX
RelaxLines(p) ==
  IF p.npc > 0 THEN <<Line("RELAX", FmtFloat(p.relax))>> ELSE <<>>

\* mutant: IFILL and DROPTOL also written for npc == 2
FillLines_FromTwo(p) ==
  IF p.npc >= 2
  THEN <<Line("IFILL", FmtInt(p.ifill)), Line("DROPTOL", FmtFloat(p.droptol))>>
  ELSE <<>>

\* IFILL, DROPTOL
FillLines(p) ==
  IF p.npc = 3
  THEN <<Line("IFILL", FmtInt(p.ifill)), Line("DROPTOL", FmtFloat(p.droptol))>>
  ELSE <<>>

\* HCLOSEPKS, RCLOSEPKS
CloseLines(p) ==
  <<Line("HCLOSEPKS", FmtFloat(p.hclose)), Line("RCLOSEPKS", FmtFloat(p.rclose))>>

\* self.l2norm.lower() raises AttributeError unless l2norm is a str
NormRaises(p) == p.l2norm.t # "NoneType" /\ p.l2norm.t # "str"

\* the norm line, for l2norm None or a str
NormLines(p) ==
  IF p.l2norm.t = "NoneType" THEN <<>>
  ELSE IF lower(p.l2norm.s) = S_l2norm \/ p.l2norm.s = S_1 THEN <<Keyword("L2NORM")>>
  ELSE IF lower(p.l2norm.s) = S_rl2norm \/ p.l2norm.s = S_2
       THEN <<Keyword("RELATIVE-L2NORM")>>
  ELSE <<>>

\* IPRPKS, MUTPKS
PrintLines(p) ==
  <<Line("IPRPKS", FmtInt(p.iprpks)), Line("MUTPKS", FmtInt(p.mutpks))>>

\* the MPI block; the branch on partopt == 1 | 2 is a pass
MpiLines(p) ==
  IF p.mpi
  THEN LET block == <<Line("PARTOPT", FmtInt(p.partopt)),
                      Line("NOVLAPIMPSOL", FmtInt(p.novlapimpsol)),
                      Line("STENIMPSOL", FmtInt(p.stenimpsol)),
                      Line("VERBOSE", FmtInt(p.verbose))>>
       IN IF p.partopt = BitOr(1, 2) THEN block ELSE block
  ELSE <<>>

\* write_file on instance p: the lines handed to f.write in order, how the
\* call ended, and whether f.close() was reached
write_file(p) ==
  LET pre == HeadLines(p) \o CoreLines(p) \o DampLines(p) \o RelaxLines(p)
             \o FillLines(p) \o CloseLines(p)
  IN IF NormRaises(p)
     THEN [lines |-> pre, status |-> "raised", err |-> "AttributeError",
           closed |-> FALSE]
     ELSE [lines |-> pre \o NormLines(p) \o PrintLines(p) \o MpiLines(p)
                     \o <<Keyword("END")>>,
           status |-> "ok", err |-> "none", closed |-> TRUE]

-----------------------------------------------------------------------------
(* ModflowPks.load *)

\* mutant: f.close() not guarded by openfile
load_AlwaysCloses(pl, v, f, ext_unit_dict, h) ==
  LET resolved == IF ext_unit_dict # None
                  THEN get_ext_dict_attr(ext_unit_dict[1], ftype)
                  ELSE <<None, None>>
      r == ModflowPks(pl, v, [Defaults EXCEPT !.unitnumber = resolved[1],
                                !.filenames = [t |-> "list", v |-> <<resolved[2]>>]])
  IN [raised |-> r.raised, packagelist |-> r.packagelist,
      opens |-> IF f # "handle" THEN 1 ELSE 0, closes |-> 1,
      handle |-> IF f = "handle" THEN [h EXCEPT !.closed = TRUE] ELSE h]

\* load(f, model, ext_unit_dict) on a model of version v whose package list is
\* pl; f is a path string or an open handle h owned by the caller
load(pl, v, f, ext_unit_dict, h) ==
  LET openfile == f # "handle"
      opens == IF openfile THEN 1 ELSE 0
      closes == IF openfile THEN 1 ELSE 0
      resolved == IF ext_unit_dict # None
                  THEN get_ext_dict_attr(ext_unit_dict[1], ftype)
                  ELSE <<None, None>>
      unitnumber == resolved[1]
      filenames == <<resolved[2]>>
      r == ModflowPks(pl, v, [Defaults EXCEPT !.unitnumber = unitnumber,
                                !.filenames = [t |-> "list", v |-> filenames]])
  IN [raised |-> r.raised, packagelist |-> r.packagelist, opens |-> opens,
      closes |-> closes, handle |-> h]

-----------------------------------------------------------------------------
(* Inputs *)

\* constructor arguments of the lifecycle specification
CtorArgs ==
  {Defaults,
   [Defaults EXCEPT !.npc = 3, !.mpi = TRUE, !.unitnumber = Some(30),
                    !.filenames = [t |-> "str", v |-> <<"my.pks">>]]}

\* attribute assignments after construction, by type of the attribute
IntFieldValues == {<<"npc", 0>>}
NormFieldValues == {NormInt(1)}

\* external-unit tables handed to load
ExtUnitDicts == {[PKS |-> [unit |-> 31, filename |-> "ext.pks"]]}

\* file references handed to load
FileRefs == {"test.pks", "handle"}

\* constructor arguments of the serialisation specification
NpcValues == {-1, 0, 1, 2, 3}
CoreValues == {0, 1, 2}
PartoptValues == {0, 1, 2, 3}
NormValues ==
  {NormNone, NormInt(1), NormInt(2),
   NormStr(S_l2norm), NormStr(<<"L", "2", "N", "O", "R", "M">>), NormStr(S_1),
   NormStr(S_rl2norm), NormStr(<<"R", "l", "2", "N", "o", "r", "m">>), NormStr(S_2),
   NormStr(<<"l", "2">>), NormStr(<<"3">>)}
CtorArgsW ==
  {[Defaults EXCEPT !.npc = n, !.ncoresm = cm, !.ncoresv = cv, !.l2norm = l,
                    !.mpi = m, !.partopt = po] :
     n \in NpcValues, cm \in CoreValues, cv \in CoreValues, l \in NormValues,
     m \in BOOLEAN, po \in PartoptValues}

-----------------------------------------------------------------------------
(* State *)

NoIO == [op |-> "none", raised |-> FALSE, opens |-> 0, writes |-> 0,
         closes |-> 0, f |-> "none", ext |-> None]

\* a fresh host model of some version, no package, nothing written
Init ==
  /\ version \in Versions
  /\ packagelist = <<>>
  /\ out = None
  /\ openFiles = {}
  /\ callerHandle = [closed |-> FALSE, pos |-> 0]
  /\ lastOp = NoIO
  /\ nOk = 0
  /\ nFail = 0

\* the counters of constructions that returned and that raised
Counted(raised) ==
  /\ IF raised THEN nFail < MaxFail ELSE nOk < MaxPkgs
  /\ nOk' = IF raised THEN nOk ELSE nOk + 1
  /\ nFail' = IF raised THEN nFail + 1 ELSE nFail

\* ModflowPks(model, **a)
Construct(a) ==
  LET r == ModflowPks(packagelist, version, a)
  IN /\ Counted(r.raised)
     /\ packagelist' = r.packagelist
     /\ lastOp' = [NoIO EXCEPT !.op = "init", !.raised = r.raised]
     /\ UNCHANGED <<version, out, openFiles, callerHandle>>

\* ModflowPks.load(f, model, ext_unit_dict)
Load(f, ext) ==
  LET r == load(packagelist, version, f, ext, callerHandle)
  IN /\ Counted(r.raised)
     /\ packagelist' = r.packagelist
     /\ callerHandle' = r.handle
     /\ lastOp' = [NoIO EXCEPT !.op = "load", !.raised = r.raised,
                               !.opens = r.opens, !.closes = r.closes,
                               !.f = f, !.ext = ext]
     /\ UNCHANGED <<version, out, openFiles>>

\* packagelist[i].write_file()
WriteFile(i) ==
  LET p == packagelist[i]
      r == write_file(p)
  IN /\ out' = Some([idx |-> i, cfg |-> p, lines |-> r.lines,
                     status |-> r.status, closed |-> r.closed])
     /\ openFiles' = IF r.closed THEN openFiles
                     ELSE openFiles \cup {[path |-> p.file_name[1], mode |-> "w"]}
     /\ lastOp' = [NoIO EXCEPT !.op = "write_file", !.raised = (r.status = "raised"),
                               !.opens = 1, !.writes = Len(r.lines),
                               !.closes = IF r.closed THEN 1 ELSE 0]
     /\ UNCHANGED <<version, packagelist, callerHandle, nOk, nFail>>

\* packagelist[i].fld = val
Assign(i, fld, val) ==
  /\ packagelist[i][fld] # val
  /\ packagelist' = [packagelist EXCEPT ![i][fld] = val]
  /\ lastOp' = [NoIO EXCEPT !.op = "setattr"]
  /\ UNCHANGED <<version, out, openFiles, callerHandle, nOk, nFail>>

\* an attribute of a registered package reassigned by its owner
SetField(i) ==
  \/ \E fv \in IntFieldValues : Assign(i, fv[1], fv[2])
  \/ \E l \in NormFieldValues : Assign(i, "l2norm", l)

Next ==
  \/ \E a \in CtorArgs : Construct(a)
  \/ \E f \in FileRefs, ext \in {None} \cup {Some(d) : d \in ExtUnitDicts} : Load(f, ext)
  \/ \E i \in DOMAIN packagelist : WriteFile(i)
  \/ \E i \in DOMAIN packagelist : SetField(i)

Spec == Init /\ [][Next]_vars

\* one package constructed on a compatible model, arguments from CtorArgsW
InitW ==
  \E v \in Versions, a \in CtorArgsW :
    LET r == ModflowPks(<<>>, v, a)
    IN /\ ~r.raised
       /\ version = v
       /\ packagelist = r.packagelist
       /\ out = None
       /\ openFiles = {}
       /\ callerHandle = [closed |-> FALSE, pos |-> 0]
       /\ lastOp = [NoIO EXCEPT !.op = "init"]
       /\ nOk = 1
       /\ nFail = 0

NextW == \E i \in DOMAIN packagelist : WriteFile(i)

SpecW == InitW /\ [][NextW]_vars

-----------------------------------------------------------------------------
(* Reading a written file *)

Written == out # None
\* the last write_file call, and the package it was called on
W == out[1]
P == packagelist[W.idx]

\* how many lines of L start with keyword k, and where the first one is
Count(L, k) == Cardinality({i \in DOMAIN L : L[i][1] = k})
Has(L, k) == \E i \in DOMAIN L : L[i][1] = k
PosOf(L, k) == CHOOSE i \in DOMAIN L : L[i][1] = k

\* the keywords of the file format in their fixed order
KeywordOrder ==
  <<"MXITER", "INNERIT", "ISOLVER", "NPC", "ISCL", "IORD", "NCORESM", "NCORESV",
    "DAMP", "DAMPT", "RELAX", "IFILL", "DROPTOL", "HCLOSEPKS", "RCLOSEPKS",
    "L2NORM", "RELATIVE-L2NORM", "IPRPKS", "MUTPKS", "PARTOPT", "NOVLAPIMPSOL",
    "STENIMPSOL", "VERBOSE", "END">>
Unconditional ==
  {"MXITER", "INNERIT", "ISOLVER", "NPC", "ISCL", "IORD", "DAMP", "DAMPT",
   "HCLOSEPKS", "RCLOSEPKS", "IPRPKS", "MUTPKS"}

-----------------------------------------------------------------------------
(* Claims *)

\* C2: in the lines of write_file a RELAX line is present iff npc > 0: none for
\* npc <= 0, exactly one for npc > 0, carrying relax, after DAMPT and before
\* HCLOSEPKS, whatever the other fields are.
C2_RelaxIffNpcPositive ==
  Written =>
    LET L == W.lines
    IN /\ P.npc <= 0 => Count(L, "RELAX") = 0
       /\ P.npc > 0 =>
            /\ Count(L, "RELAX") = 1
            /\ L[PosOf(L, "RELAX")] = <<"RELAX", P.relax>>
            /\ Has(L, "DAMPT") /\ PosOf(L, "DAMPT") < PosOf(L, "RELAX")
            /\ Has(L, "HCLOSEPKS") /\ PosOf(L, "RELAX") < PosOf(L, "HCLOSEPKS")

C2_Witness ==
  /\ Written /\ P.npc = 1 /\ P.mpi /\ P.ncoresm = 2
  /\ Count(W.lines, "RELAX") = 1

\* C3: IFILL and DROPTOL are written only when npc == 3 and always together:
\* neither for npc # 3; for npc == 3 one IFILL immediately followed by one
\* DROPTOL, after RELAX and before HCLOSEPKS; so IFILL/DROPTOL imply RELAX.
C3_FillOnlyNpc3 ==
  Written =>
    LET L == W.lines
    IN /\ P.npc # 3 => ~Has(L, "IFILL") /\ ~Has(L, "DROPTOL")
       /\ P.npc = 3 =>
            /\ Count(L, "IFILL") = 1 /\ Count(L, "DROPTOL") = 1
            /\ PosOf(L, "DROPTOL") = PosOf(L, "IFILL") + 1
            /\ Has(L, "RELAX") /\ PosOf(L, "RELAX") < PosOf(L, "IFILL")
            /\ Has(L, "HCLOSEPKS") /\ PosOf(L, "DROPTOL") < PosOf(L, "HCLOSEPKS")
       /\ (Has(L, "IFILL") \/ Has(L, "DROPTOL")) => Has(L, "RELAX")

C3_Witness ==
  /\ Written /\ P.npc = 3
  /\ Has(W.lines, "IFILL") /\ Has(W.lines, "DROPTOL") /\ Has(W.lines, "RELAX")

\* C4: NCORESM is written iff ncoresm > 1 and NCORESV iff ncoresv > 1, each gate
\* on its own field; both lie between IORD and DAMP, NCORESM before NCORESV.
C4_CoreLinesOwnGate ==
  Written =>
    LET L == W.lines
        Between(k) == /\ Count(L, k) = 1
                      /\ PosOf(L, "IORD") < PosOf(L, k)
                      /\ PosOf(L, k) < PosOf(L, "DAMP")
    IN /\ Has(L, "IORD") /\ Has(L, "DAMP")
       /\ IF P.ncoresm > 1 THEN Between("NCORESM") ELSE ~Has(L, "NCORESM")
       /\ IF P.ncoresv > 1 THEN Between("NCORESV") ELSE ~Has(L, "NCORESV")
       /\ (Has(L, "NCORESM") /\ Has(L, "NCORESV")) =>
            PosOf(L, "NCORESM") < PosOf(L, "NCORESV")

C4_Witness ==
  /\ Written /\ P.ncoresm = 2 /\ P.ncoresv = 2
  /\ Has(W.lines, "NCORESM") /\ Has(W.lines, "NCORESV")

\* C5: write_file maps l2norm to at most one keyword line: "l2norm" in any case
\* or "1" gives one line L2NORM, "rl2norm" in any case or "2" gives one line
\* RELATIVE-L2NORM, and every other value (an unrecognised string, a non-string
\* code, None) gives no norm line and no error, the call completing with END.
C5_NormMapping ==
  Written =>
    LET L == W.lines
        n == P.l2norm
        isL2 == n.t = "str" /\ (lower(n.s) = S_l2norm \/ n.s = S_1)
        isRl2 == n.t = "str" /\ (lower(n.s) = S_rl2norm \/ n.s = S_2)
    IN /\ Count(L, "L2NORM") = IF isL2 THEN 1 ELSE 0
       /\ Count(L, "RELATIVE-L2NORM") = IF isRl2 /\ ~isL2 THEN 1 ELSE 0
       /\ W.status = "ok"
       /\ L[Len(L)] = <<"END">>

\* C6: with mpi true write_file emits exactly the four lines PARTOPT,
\* NOVLAPIMPSOL, STENIMPSOL, VERBOSE in that order right after MUTPKS and right
\* before END, for every partopt and with no error; with mpi false none of them.
C6_MpiBlock ==
  Written =>
    LET L == W.lines
        four == <<"PARTOPT", "NOVLAPIMPSOL", "STENIMPSOL", "VERBOSE">>
    IN IF P.mpi
       THEN /\ W.status = "ok"
            /\ \A j \in 1..4 : Count(L, four[j]) = 1
            /\ Has(L, "MUTPKS")
            /\ \A j \in 1..4 : PosOf(L, four[j]) = PosOf(L, "MUTPKS") + j
            /\ Len(L) = PosOf(L, "MUTPKS") + 5
            /\ L[Len(L)] = <<"END">>
       ELSE \A j \in 1..4 : ~Has(L, four[j])

\* C7: for every config the lines of write_file start with the heading, end
\* with the one and only END line, hold each keyword at most once in the fixed
\* order, at most one norm line, and all twelve unconditional keywords.
C7_ShapeOfOutput ==
  Written =>
    LET L == W.lines
    IN /\ L[1] = <<P.heading>>
       /\ L[Len(L)] = <<"END">>
       /\ Count(L, "END") = 1
       /\ \A i \in 2..Len(L) : \E r \in DOMAIN KeywordOrder : L[i][1] = KeywordOrder[r]
       /\ \A i, j \in 2..Len(L) :
            i < j => \A r, q \in DOMAIN KeywordOrder :
                       (L[i][1] = KeywordOrder[r] /\ L[j][1] = KeywordOrder[q]) => r < q
       /\ Count(L, "L2NORM") + Count(L, "RELATIVE-L2NORM") <= 1
       /\ \A k \in Unconditional : Count(L, k) = 1

\* C8: every write_file call that opened its file closed it: no call ends with
\* the handle it opened still open.
C8_SinkReleased ==
  /\ lastOp.op = "write_file" => lastOp.closes = lastOp.opens
  /\ Written => W.closed
  /\ openFiles = {}

\* C1 as stated: construction (direct or through load) raises exactly when the
\* version is "mf2k" or "mfnwt", and when it raises no file has been opened,
\* written or closed.
C1_NoFileTouched ==
  lastOp.op \in {"init", "load"} =>
    /\ lastOp.raised <=> version \in {"mf2k", "mfnwt"}
    /\ lastOp.raised => lastOp.opens = 0 /\ lastOp.writes = 0 /\ lastOp.closes = 0

\* C1 amended: construction raises exactly when the version is "mf2k" or
\* "mfnwt"; nothing is written and no handle is left open; a direct
\* construction opens and closes no file, while load given a path string has
\* opened and closed that one file before the constructor raises.
C1_RaisesOnBadVersion ==
  lastOp.op \in {"init", "load"} =>
    /\ lastOp.raised <=> version \in {"mf2k", "mfnwt"}
    /\ lastOp.raised =>
         /\ lastOp.writes = 0
         /\ openFiles = {}
         /\ packagelist = <<>>
         /\ lastOp.op = "init" => lastOp.opens = 0 /\ lastOp.closes = 0
         /\ lastOp.op = "load" =>
              /\ lastOp.opens = (IF lastOp.f = "handle" THEN 0 ELSE 1)
              /\ lastOp.closes = lastOp.opens

C1_Witness ==
  /\ lastOp.op = "load" /\ lastOp.raised /\ version = "mfnwt"
  /\ lastOp.opens = 1 /\ lastOp.closes = 1 /\ nFail = 2

C10_OneEntryPerConstruction ==
  /\ [](Len(packagelist) = nOk)
  /\ [][/\ nOk' = nOk + 1 =>
             /\ Len(packagelist') = Len(packagelist) + 1
             /\ SubSeq(packagelist', 1, Len(packagelist)) = packagelist
        /\ nFail' # nFail => packagelist' = packagelist
        /\ lastOp'.op = "write_file" => packagelist' = packagelist]_vars

C10_Witness ==
  /\ Len(packagelist) = 2 /\ nOk = 2
  /\ lastOp.op = "write_file" /\ Written /\ W.idx = 2

====
